---- MODULE Spec2Model ----
\* A model of extract_cme_matching_data (src/4_script.py): the pass that aligns
\* CME events with field-data (CDF) rows by a minute-truncated timestamp and
\* collapses the matching rows of every event into one summary row.
EXTENDS Integers, Sequences, FiniteSets, TLC

\* ---------------------------------------------------------------- bounds
\* Largest number of rows of a field table / of an event table.
MaxField == 2
MaxEvents == 2

\* ---------------------------------------------------------------- cells
\* Every cell of a table is a record carrying the flag na (pandas isna).
\* NaN is the float missing value, None the Python one.
NaN == [na |-> TRUE, kind |-> "NaN"]
None == [na |-> TRUE, kind |-> "None"]
\* A float cell holding the number x; a mean is the fraction num/den.
Num(x) == [na |-> FALSE, num |-> x, den |-> 1]
\* A text cell.
Str(s) == [na |-> FALSE, s |-> s]
\* A bool cell.
Bool(b) == [na |-> FALSE, b |-> b]
\* A timestamp string "2025-05-01T12:0m:ss" (ok) ...
TsStr(m, s) == [na |-> FALSE, ok |-> TRUE, mm |-> m, ss |-> s]
\* ... and a string no timestamp parser accepts.
TsBad == [na |-> FALSE, ok |-> FALSE, mm |-> 0, ss |-> 0]

IsMissing(x) == x.na

\* The missing datetime64 value: pandas stores NaT as one reserved integer.
NaT == -1

\* ---------------------------------------------------------------- tables
\* A DataFrame: n rows, the column names in column order, the cells of each
\* column, the dtype of each column.
HasCol(df, name) == name \in DOMAIN df.col

\* df[name] = cells: an existing column is overwritten in place, a new one is
\* appended after the last column.
SetCol(df, name, cells, dt) ==
    [n |-> df.n,
     order |-> IF HasCol(df, name) THEN df.order ELSE Append(df.order, name),
     col |-> (name :> cells) @@ df.col,
     dtype |-> (name :> dt) @@ df.dtype]

\* The inputs the model draws from.
FieldTimestamps == {TsStr(0, 7), TsStr(0, 59), TsStr(1, 0), NaN, TsBad}
EventTimestamps == {TsStr(0, 7), TsStr(1, 0), NaN, TsBad}
\* (numeric v, text c) of a field-data row.
FieldPayloads == {<<Num(10), Str("b")>>, <<Num(20), Str("a")>>, <<NaN, None>>}

\* A field table with columns epoch_for_cdf_mod (unless ~hasTs), v, c and
\* flag (if hasFlag, a bool column).
FieldTable(n, ts, pay, hasTs, hasFlag) ==
    LET base == [n |-> n,
                 order |-> <<"v", "c">>,
                 col |-> ("v" :> [i \in 1..n |-> pay[i][1]]) @@
                         ("c" :> [i \in 1..n |-> pay[i][2]]),
                 dtype |-> ("v" :> "float64") @@ ("c" :> "object")]
        withTs == IF hasTs
                  THEN [n |-> n,
                        order |-> <<"epoch_for_cdf_mod">> \o base.order,
                        col |-> ("epoch_for_cdf_mod" :> ts) @@ base.col,
                        dtype |-> ("epoch_for_cdf_mod" :> "object") @@ base.dtype]
                  ELSE base
    IN  IF hasFlag
        THEN SetCol(withTs, "flag", [i \in 1..n |-> Bool(TRUE)], "bool")
        ELSE withTs

FieldTables ==
    UNION {{FieldTable(n, ts, pay, TRUE, hasFlag) :
                ts \in [1..n -> FieldTimestamps], pay \in [1..n -> FieldPayloads],
                hasFlag \in BOOLEAN}
           \cup {FieldTable(n, <<>>, pay, FALSE, FALSE) : pay \in [1..n -> FieldPayloads]}
           : n \in 0..MaxField}

\* An event table with columns CME (the event id) and t0 (unless ~hasT0).
EventTable(n, ts, hasT0) ==
    LET base == [n |-> n,
                 order |-> <<"CME">>,
                 col |-> ("CME" :> [i \in 1..n |-> Num(i)]),
                 dtype |-> ("CME" :> "int64")]
    IN  IF hasT0 THEN SetCol(base, "t0", ts, "object") ELSE base

EventTables ==
    UNION {{EventTable(n, ts, TRUE) : ts \in [1..n -> EventTimestamps]}
           \cup {EventTable(n, <<>>, FALSE)}
           : n \in 0..MaxEvents}

\* ---------------------------------------------------------------- state
VARIABLES
    cdf_in,       \* the field table as the caller built it (never assigned)
    cme_in,       \* the event table as the caller built it (never assigned)
    df_cdf,       \* the caller's field table object, as the call sees it
    df_cme,       \* the caller's event table object, as the call sees it
    pc,           \* position of the call
    err,          \* the exception that ended the call, "" if none
    num_cols,     \* numeric columns, in column order
    obj_cols,     \* object columns, in column order
    idx,          \* number of events the loop has handled
    matches,      \* row numbers of df_cdf matching the event handled last
    output_rows,  \* the list of summary rows
    result_df,    \* the returned table
    csv_writes    \* number of times the output file was written

vars == <<cdf_in, cme_in, df_cdf, df_cme, pc, err, num_cols, obj_cols, idx,
          matches, output_rows, result_df, csv_writes>>

Init ==
    /\ cdf_in \in FieldTables
    /\ cme_in \in EventTables
    /\ df_cdf = cdf_in
    /\ df_cme = cme_in
    /\ pc = "start"
    /\ err = ""
    /\ num_cols = <<>>
    /\ obj_cols = <<>>
    /\ idx = 0
    /\ matches = <<>>
    /\ output_rows = <<>>
    /\ result_df = <<>>
    /\ csv_writes = 0

\* ---------------------------------------------------------------- conversion
\* pd.to_datetime with errors='raise' (the default): a string that is no
\* timestamp raises.
Unparseable(cell) == ~cell.na /\ ~cell.ok

\* pd.to_datetime on one cell: missing becomes NaT, a timestamp string its
\* number of seconds.
to_datetime(cell) == IF cell.na THEN NaT ELSE 60 * cell.mm + cell.ss

\* Series.dt.floor('min') on one value: NaT stays NaT.
floor_min_none(t) == t
floor_min(t) == IF t = NaT THEN NaT ELSE t - (t % 60)

\* Elementwise == of datetime64 values: NaT equals nothing, itself included.
DtEqPlain(a, b) == a = b
DtEq(a, b) == a # NaT /\ b # NaT /\ a = b

Raise(e) ==
    /\ pc' = "failed"
    /\ err' = e

\* df_cdf['datetime'] = pd.to_datetime(df_cdf['epoch_for_cdf_mod'])
ToDatetimeCdf ==
    /\ pc = "start"
    /\ IF ~HasCol(df_cdf, "epoch_for_cdf_mod")
       THEN Raise("KeyError") /\ UNCHANGED df_cdf
       ELSE IF \E i \in 1..df_cdf.n : Unparseable(df_cdf.col["epoch_for_cdf_mod"][i])
       THEN Raise("ValueError") /\ UNCHANGED df_cdf
       ELSE /\ df_cdf' = SetCol(df_cdf, "datetime",
                                [i \in 1..df_cdf.n |->
                                    to_datetime(df_cdf.col["epoch_for_cdf_mod"][i])],
                                "datetime64")
            /\ pc' = "cdf_converted"
            /\ UNCHANGED err
    /\ UNCHANGED <<cdf_in, cme_in, df_cme, num_cols, obj_cols, idx, matches,
                   output_rows, result_df, csv_writes>>

\* df_cme['datetime'] = pd.to_datetime(df_cme['t0'])
ToDatetimeCme ==
    /\ pc = "cdf_converted"
    /\ IF ~HasCol(df_cme, "t0")
       THEN Raise("KeyError") /\ UNCHANGED df_cme
       ELSE IF \E i \in 1..df_cme.n : Unparseable(df_cme.col["t0"][i])
       THEN Raise("ValueError") /\ UNCHANGED df_cme
       ELSE /\ df_cme' = SetCol(df_cme, "datetime",
                                [i \in 1..df_cme.n |-> to_datetime(df_cme.col["t0"][i])],
                                "datetime64")
            /\ pc' = "cme_converted"
            /\ UNCHANGED err
    /\ UNCHANGED <<cdf_in, cme_in, df_cdf, num_cols, obj_cols, idx, matches,
                   output_rows, result_df, csv_writes>>

\* df['dt_trunc'] = df['datetime'].dt.floor('min')
Truncate(df) ==
    SetCol(df, "dt_trunc", [i \in 1..df.n |-> floor_min(df.col["datetime"][i])],
           "datetime64")

\* ---------------------------------------------------------------- classification
NumberDtypes == {"int64", "float64"}
HelperCols == {"epoch_for_cdf_mod", "datetime", "dt_trunc"}

\* df.select_dtypes(include=...).columns.tolist()
select_dtypes(df, dtypes) == SelectSeq(df.order, LAMBDA c : df.dtype[c] \in dtypes)

\* for col in [...]: if col in cols: cols.remove(col)
remove_helpers_none(cols) == cols
remove_helpers(cols) == SelectSeq(cols, LAMBDA c : c \notin HelperCols)

\* Lines 74-88: both keys, then the two column lists.
Prepare ==
    /\ pc = "cme_converted"
    /\ df_cdf' = Truncate(df_cdf)
    /\ df_cme' = Truncate(df_cme)
    /\ num_cols' = remove_helpers(select_dtypes(df_cdf', NumberDtypes))
    /\ obj_cols' = remove_helpers(select_dtypes(df_cdf', {"object"}))
    /\ pc' = "loop"
    /\ UNCHANGED <<cdf_in, cme_in, err, idx, matches, output_rows, result_df,
                   csv_writes>>

\* ---------------------------------------------------------------- aggregation
Indices(n) == [i \in 1..n |-> i]

\* df_cdf[df_cdf['dt_trunc'] == cme_time]: the matching row numbers, in row order.
match_rows(df, cme_time) ==
    SelectSeq(Indices(df.n), LAMBDA i : DtEq(df.col["dt_trunc"][i], cme_time))

\* matches[col]: the cells of one column of the matching rows.
ColVals(df, m, c) == [k \in 1..Len(m) |-> df.col[c][m[k]]]

NonMissing(vals) == SelectSeq(vals, LAMBDA x : ~IsMissing(x))

RECURSIVE SeqSum(_)
SeqSum(vals) == IF vals = <<>> THEN 0 ELSE Head(vals).num + SeqSum(Tail(vals))

\* Series.mean(): skipna, so sum and count run over the non-missing cells; the
\* mean of no cell is NaN.
mean_countall(vals) ==
    IF vals = <<>> THEN NaN
    ELSE [na |-> FALSE, num |-> SeqSum(NonMissing(vals)), den |-> Len(vals)]
mean(vals) ==
    LET present == NonMissing(vals)
    IN  IF present = <<>> THEN NaN
        ELSE [na |-> FALSE, num |-> SeqSum(present), den |-> Len(present)]

\* The order of text cells (the strings of the model are "a" < "b").
Ord(s) == CASE s = "a" -> 1 [] s = "b" -> 2
StrLess(x, y) == Ord(x.s) < Ord(y.s)

Occurrences(vals, x) == Cardinality({k \in 1..Len(vals) : vals[k] = x})

\* The distinct cells of vals in order of first appearance.
RECURSIVE Distinct(_)
Distinct(vals) ==
    IF vals = <<>> THEN <<>>
    ELSE LET init == SubSeq(vals, 1, Len(vals) - 1)
             last == vals[Len(vals)]
         IN  IF \E k \in 1..Len(init) : init[k] = last
             THEN Distinct(init)
             ELSE Append(Distinct(init), last)

\* Series.mode() (dropna=True): the most frequent non-missing cells, sorted.
mode_unsorted(vals) ==
    LET present == NonMissing(vals)
    IN  SelectSeq(Distinct(present),
                  LAMBDA x : \A k \in 1..Len(present) :
                      Occurrences(present, present[k]) <= Occurrences(present, x))
mode(vals) ==
    LET present == NonMissing(vals)
        top == SelectSeq(Distinct(present),
                         LAMBDA x : \A k \in 1..Len(present) :
                             Occurrences(present, present[k]) <= Occurrences(present, x))
    IN  SortSeq(top, StrLess)

\* matches[col].mode().iloc[0] if not matches[col].mode().empty else None
mode_value(vals) == IF mode(vals) # <<>> THEN Head(mode(vals)) ELSE None

\* .iloc[0] raises IndexError on an empty Series; it is evaluated only when
\* the mode is not empty.
iloc0_raises_unguarded(vals) == Len(mode(vals)) < 1
iloc0_raises(vals) == mode(vals) # <<>> /\ Len(mode(vals)) < 1

Range(s) == {s[k] : k \in 1..Len(s)}
SummaryCols == Range(num_cols) \cup Range(obj_cols)

\* The row of an event with matches: mean for numerics, mode for objects,
\* then the event's t0.
agg_matched(m, e) ==
    [c \in SummaryCols \cup {"cme_t0"} |->
        IF c = "cme_t0" THEN df_cme.col["t0"][e]
        ELSE IF c \in Range(obj_cols) THEN mode_value(ColVals(df_cdf, m, c))
        ELSE mean(ColVals(df_cdf, m, c))]

\* The row of an event without matches: None in every column, then t0.
agg_empty_zero(e) ==
    [c \in SummaryCols \cup {"cme_t0"} |->
        IF c = "cme_t0" THEN df_cme.col["t0"][e]
        ELSE IF c \in Range(obj_cols) THEN None ELSE Num(0)]
agg_empty(e) ==
    [c \in SummaryCols \cup {"cme_t0"} |->
        IF c = "cme_t0" THEN df_cme.col["t0"][e] ELSE None]

\* Both branches of the loop body end in output_rows.append(agg_row).
append_row_matched_only(rows, m, e) ==
    IF m # <<>> THEN Append(rows, agg_matched(m, e)) ELSE rows
append_row(rows, m, e) ==
    Append(rows, IF m # <<>> THEN agg_matched(m, e) ELSE agg_empty(e))

\* One iteration of "for idx, cme_row in df_cme.iterrows()".
AggregateEvent ==
    /\ pc = "loop"
    /\ idx < df_cme.n
    /\ LET e == idx + 1
           cme_time == df_cme.col["dt_trunc"][e]
           m == match_rows(df_cdf, cme_time)
       IN  IF m # <<>> /\ \E c \in Range(obj_cols) : iloc0_raises(ColVals(df_cdf, m, c))
           THEN /\ Raise("IndexError")
                /\ UNCHANGED <<idx, matches, output_rows>>
           ELSE /\ idx' = e
                /\ matches' = m
                /\ output_rows' = append_row(output_rows, m, e)
                /\ UNCHANGED <<pc, err>>
    /\ UNCHANGED <<cdf_in, cme_in, df_cdf, df_cme, num_cols, obj_cols, result_df,
                   csv_writes>>

\* After the last event: result_df = pd.DataFrame(output_rows), to_csv, return.
Save ==
    /\ pc = "loop"
    /\ idx = df_cme.n
    /\ result_df' = output_rows
    /\ csv_writes' = csv_writes + 1
    /\ pc' = "done"
    /\ UNCHANGED <<cdf_in, cme_in, df_cdf, df_cme, err, num_cols, obj_cols, idx,
                   matches, output_rows>>

Next ==
    \/ ToDatetimeCdf
    \/ ToDatetimeCme
    \/ Prepare
    \/ AggregateEvent
    \/ Save

Spec == Init /\ [][Next]_vars

\* ---------------------------------------------------------------- claims
InLoop == pc \in {"loop", "done"}
KeyOfEvent(e) == df_cme.col["dt_trunc"][e]
KeyOfRow(i) == df_cdf.col["dt_trunc"][i]
IsSummaryRow(r) == DOMAIN r = SummaryCols \cup {"cme_t0"}
AllSummaryMissing(r) == \A c \in SummaryCols : IsMissing(r[c])

\* C1: every handled event has exactly one output row, at its own position,
\* whose cme_t0 is the event's t0 as the caller supplied it; the returned table
\* has one row per event of the event table, in event order.
RowPerEventInOrder ==
    /\ Len(output_rows) = idx
    /\ \A i \in 1..Len(output_rows) : output_rows[i]["cme_t0"] = cme_in.col["t0"][i]
    /\ pc = "done" =>
          /\ Len(result_df) = cme_in.n
          /\ \A i \in 1..cme_in.n : result_df[i]["cme_t0"] = cme_in.col["t0"][i]

\* C1 witness: a finished call on two events that share a truncated key, the
\* key being the floor of a t0 with seconds, with matching field rows.
RowPerEventWitness ==
    /\ pc = "done"
    /\ cme_in.n = 2
    /\ KeyOfEvent(1) = KeyOfEvent(2)
    /\ cme_in.col["t0"][1] = TsStr(0, 7)
    /\ matches # <<>>
    /\ Len(result_df) = 2

\* The non-missing positions of column c among the matching rows.
PresentAt(c) == {k \in 1..Len(matches) : ~IsMissing(df_cdf.col[c][matches[k]])}
CellAt(c, k) == df_cdf.col[c][matches[k]]
CountOf(c, x) == Cardinality({k \in PresentAt(c) : CellAt(c, k) = x})
\* x is one of the most frequent non-missing cells of column c.
IsTop(c, x) ==
    /\ \E k \in PresentAt(c) : CellAt(c, k) = x
    /\ \A k \in PresentAt(c) : CountOf(c, CellAt(c, k)) <= CountOf(c, x)

\* C2 (as amended): among the most frequent non-missing values of an object
\* column in the match set the emitted value is the smallest in sort order; it
\* is missing when every value of the column in the match set is missing.
ModeTieSmallest ==
    (InLoop /\ idx >= 1 /\ matches # <<>>) =>
        \A c \in Range(obj_cols) :
            LET out == output_rows[idx][c]
            IN  IF PresentAt(c) = {} THEN IsMissing(out)
                ELSE /\ ~IsMissing(out)
                     /\ IsTop(c, out)
                     /\ \A k \in PresentAt(c) :
                            IsTop(c, CellAt(c, k)) => ~StrLess(CellAt(c, k), out)

\* C2 as stated: among the most frequent non-missing values the emitted value
\* is the one that appears first in the match set.
ModeTieFirstAppearance ==
    (InLoop /\ idx >= 1 /\ matches # <<>>) =>
        \A c \in Range(obj_cols) :
            LET out == output_rows[idx][c]
            IN  IF PresentAt(c) = {} THEN IsMissing(out)
                ELSE /\ ~IsMissing(out)
                     /\ IsTop(c, out)
                     /\ \A k \in PresentAt(c) :
                            IsTop(c, CellAt(c, k)) =>
                                \E j \in PresentAt(c) : j <= k /\ CellAt(c, j) = out

\* C2 witness: the match set holds "b" then "a", one each, and "a" is emitted.
ModeTieWitness ==
    /\ InLoop
    /\ Len(matches) = 2
    /\ CellAt("c", 1) = Str("b")
    /\ CellAt("c", 2) = Str("a")
    /\ output_rows[idx]["c"] = Str("a")

\* C3: the caller's two tables are as they were before the call.
InputTablesUnchanged ==
    /\ df_cdf = cdf_in
    /\ df_cme = cme_in

\* C4: with both timestamp columns present the call does not fail, whatever
\* the timestamp cells hold, and returns one row per event.
BadTimestampTolerated ==
    (HasCol(cdf_in, "epoch_for_cdf_mod") /\ HasCol(cme_in, "t0")) =>
        /\ pc # "failed"
        /\ pc = "done" => Len(result_df) = cme_in.n

\* C5: a field row whose key is invalid is in no match set, and an event whose
\* key is invalid has an empty match set and an all-missing summary row.
InvalidKeyMatchesNothing ==
    (InLoop /\ idx >= 1) =>
        /\ \A k \in 1..Len(matches) : KeyOfRow(matches[k]) # NaT
        /\ KeyOfEvent(idx) = NaT =>
              /\ matches = <<>>
              /\ IsSummaryRow(output_rows[idx])
              /\ AllSummaryMissing(output_rows[idx])

\* C5 witness: an event with a missing t0 was handled against a field table
\* that holds a row with a missing timestamp.
InvalidKeyWitness ==
    /\ InLoop
    /\ idx >= 1
    /\ IsMissing(cme_in.col["t0"][idx])
    /\ KeyOfEvent(idx) = NaT
    /\ \E i \in 1..cdf_in.n :
          IsMissing(cdf_in.col["epoch_for_cdf_mod"][i]) /\ KeyOfRow(i) = NaT
    /\ AllSummaryMissing(output_rows[idx])

\* C6: the match set of an event with a timestamp is exactly the field rows
\* whose timestamp lies in the same minute, in row order.
MatchSetIsSameMinute ==
    (InLoop /\ idx >= 1 /\ ~IsMissing(cme_in.col["t0"][idx])) =>
        /\ Range(matches) =
              {i \in 1..cdf_in.n :
                  /\ ~IsMissing(cdf_in.col["epoch_for_cdf_mod"][i])
                  /\ cdf_in.col["epoch_for_cdf_mod"][i].mm = cme_in.col["t0"][idx].mm}
        /\ \A j, k \in 1..Len(matches) : j < k => matches[j] < matches[k]

\* C6 witness: the event is at 0:07, the field rows at 0:59 and 1:00; the
\* first is matched, the second (one second later) is not.
SameMinuteWitness ==
    /\ InLoop
    /\ idx >= 1
    /\ cme_in.col["t0"][idx] = TsStr(0, 7)
    /\ cdf_in.n = 2
    /\ cdf_in.col["epoch_for_cdf_mod"][1] = TsStr(0, 59)
    /\ cdf_in.col["epoch_for_cdf_mod"][2] = TsStr(1, 0)
    /\ matches = <<1>>

\* The key of event e equals the key of no field row.
NoKeyMatch(e) == \A i \in 1..df_cdf.n : ~DtEq(KeyOfRow(i), KeyOfEvent(e))

\* C7: an event whose key equals no field row's key has its output row, with
\* every summary column missing, and the pass has not failed.
EmptyMatchAllMissing ==
    InLoop =>
        \A e \in 1..idx :
            NoKeyMatch(e) =>
                /\ Len(output_rows) >= e
                /\ IsSummaryRow(output_rows[e])
                /\ AllSummaryMissing(output_rows[e])

\* C7 witness: the first event matched and has a mean, the second matched
\* nothing, and the call returned.
EmptyMatchWitness ==
    /\ pc = "done"
    /\ idx = 2
    /\ ~NoKeyMatch(1)
    /\ ~IsMissing(output_rows[1]["v"])
    /\ NoKeyMatch(2)
    /\ IsMissing(output_rows[2]["v"])

RECURSIVE SetSum(_, _)
SetSum(c, S) ==
    IF S = {} THEN 0
    ELSE LET i == CHOOSE j \in S : TRUE
         IN  cdf_in.col[c][i].num + SetSum(c, S \ {i})

\* C8: for a non-empty match set the value emitted for a numeric column is the
\* sum of its non-missing values divided by their number, and missing when
\* there is none.
MeanOfNonMissing ==
    (InLoop /\ idx >= 1 /\ matches # <<>>) =>
        \A c \in Range(num_cols) :
            LET S == {i \in Range(matches) : ~IsMissing(cdf_in.col[c][i])}
                out == output_rows[idx][c]
            IN  IF S = {} THEN IsMissing(out)
                ELSE /\ ~IsMissing(out)
                     /\ out.den > 0
                     /\ out.num * Cardinality(S) = SetSum(c, S) * out.den

\* C8 witness: the match set holds the values 10 and missing; the mean is 10.
MeanWitness ==
    /\ InLoop
    /\ Len(matches) = 2
    /\ CellAt("v", 1) = Num(10)
    /\ IsMissing(CellAt("v", 2))
    /\ output_rows[idx]["v"] = Num(10)

\* C9: a failed call has produced no output row and written no file; a
\* returned call has all rows and wrote the file once, which happens only
\* after the last event; an absent timestamp column fails the call before the
\* loop.
AllOrNothing ==
    /\ pc = "failed" =>
          /\ output_rows = <<>>
          /\ idx = 0
          /\ result_df = <<>>
          /\ csv_writes = 0
    /\ pc = "done" =>
          /\ Len(result_df) = cme_in.n
          /\ idx = cme_in.n
          /\ csv_writes = 1
    /\ csv_writes > 0 => pc = "done"
    /\ ~HasCol(cdf_in, "epoch_for_cdf_mod") =>
          /\ pc \in {"start", "failed"}
          /\ pc = "failed" => err = "KeyError"
    /\ ~HasCol(cme_in, "t0") => pc \in {"start", "cdf_converted", "failed"}

\* C9 witness: the event table of two events has no t0 column, the field table
\* has rows, and the call has failed with KeyError.
AllOrNothingWitness ==
    /\ pc = "failed"
    /\ err = "KeyError"
    /\ ~HasCol(cme_in, "t0")
    /\ cme_in.n = 2
    /\ cdf_in.n >= 1
    /\ output_rows = <<>>

\* The columns of the field table a summary is owed for.
DataCols == DOMAIN cdf_in.col \ HelperCols

\* C10 (as amended): the numeric columns are the data columns of a number
\* dtype, the categorical columns the data columns of dtype object, no column
\* is both, a column of any other dtype is in neither list; the lists depend on
\* the input alone, and every output row has exactly the listed columns.
ClassifiedByDtype ==
    InLoop =>
        /\ Range(num_cols) \cap Range(obj_cols) = {}
        /\ Range(num_cols) = {c \in DataCols : cdf_in.dtype[c] \in NumberDtypes}
        /\ Range(obj_cols) = {c \in DataCols : cdf_in.dtype[c] = "object"}
        /\ \A i \in 1..Len(output_rows) : IsSummaryRow(output_rows[i])

\* C10 as stated: every data column is numeric or categorical, not both, and
\* has a value in every output row.
EveryColumnClassified ==
    InLoop =>
        /\ Range(num_cols) \cap Range(obj_cols) = {}
        /\ \A c \in DataCols : c \in Range(num_cols) \cup Range(obj_cols)
        /\ \A i \in 1..Len(output_rows) : DataCols \subseteq DOMAIN output_rows[i]

\* C10 witness: the field table has the bool column flag, two events were
\* handled and no output row has a flag value.
ClassifiedWitness ==
    /\ pc = "done"
    /\ idx = 2
    /\ HasCol(cdf_in, "flag")
    /\ Range(num_cols) = {"v"}
    /\ Range(obj_cols) = {"c"}
    /\ \A i \in 1..2 : "flag" \notin DOMAIN output_rows[i]

====
